---- MODULE Spec2Model ----
(***************************************************************************)
(* Model of the Qdrant Sigma Rules Pipeline                                *)
(* (src/alpha_keyword_search_with_output_context.py) and of the payload    *)
(* preparation of the ingester (src/sigma_rules_convert_384_v1.py).        *)
(*                                                                         *)
(* Text is a sequence of tokens.  Data text (queries, payload values,      *)
(* stream lines) is a sequence of one-character strings, so that lower(),  *)
(* the regular expression, strip(), split() and the substring test work on *)
(* characters.  The literal parts of the program's format strings are one  *)
(* token each ("description: |"), since the program only concatenates them.*)
(***************************************************************************)
EXTENDS Integers, Sequences, FiniteSets, TLC

VARIABLES
    store,                 \* the collection: the payload names of its points, in scroll order
    last_search_results,   \* Pipeline.last_search_results
    pc,                    \* position of the pipe generator / of the pure-function harness
    query,                 \* pipe: query
    search_terms,          \* pipe: search_terms
    matches,               \* pipe: matches
    idx,                   \* pipe: index of the next rule to list
    llm_prompt,            \* pipe: llm_prompt (a sequence of lines)
    out,                   \* the fragments the generator has yielded
    received,              \* the lines response.iter_lines has delivered so far
    ret,                   \* return value of the last direct search_qdrant call
    hist,                  \* observations of the current invocation (history, not program state)
    fn_in,                 \* input of the pure function applied on its own
    fn_out                 \* its result

vars == <<store, last_search_results, pc, query, search_terms, matches, idx,
          llm_prompt, out, received, ret, hist, fn_in, fn_out>>

(***************************************************************************)
(* Bounds of the model.                                                    *)
(***************************************************************************)
MaxLen == 3        \* longest query string given to the Term Extractor on its own
MaxStore == 2      \* most points in the collection
MaxStream == 2     \* most lines of one generation stream

(***************************************************************************)
(* Characters and Python's str operations.                                 *)
(***************************************************************************)
UpperChars == {"A", "B", "M", "T"}
LowerChars == {"a", "b", "c", "k", "m", "t", "x", "z"}
DigitStr == <<"0", "1", "2", "3", "4", "5", "6", "7", "8", "9">>
DigitChars == {DigitStr[i] : i \in 1..10}
SpaceChars == {" ", "\n", "\t"}

LowerChar(c) ==
    CASE c = "A" -> "a"
      [] c = "B" -> "b"
      [] c = "M" -> "m"
      [] c = "T" -> "t"
      [] OTHER -> c

\* str.lower()
Lower(s) == [i \in 1..Len(s) |-> LowerChar(s[i])]

\* \w of the re module: letters, digits and the underscore
IsWordChar(c) == c \in UpperChars \cup LowerChars \cup DigitChars \cup {"_"}

\* \s of the re module, and the whitespace of str.strip() and str.split()
IsSpaceChar(c) == c \in SpaceChars

RECURSIVE SelectChars(_, _)
SelectChars(s, keep) ==
    IF s = <<>> THEN <<>>
    ELSE IF Head(s) \in keep THEN <<Head(s)>> \o SelectChars(Tail(s), keep)
    ELSE SelectChars(Tail(s), keep)

RECURSIVE DropPunct(_)
\* re.sub(r'[^\w\s]', '', s)
DropPunct(s) ==
    IF s = <<>> THEN <<>>
    ELSE IF IsWordChar(Head(s)) \/ IsSpaceChar(Head(s))
         THEN <<Head(s)>> \o DropPunct(Tail(s))
         ELSE DropPunct(Tail(s))

RECURSIVE LStrip(_)
LStrip(s) == IF s # <<>> /\ IsSpaceChar(Head(s)) THEN LStrip(Tail(s)) ELSE s

RECURSIVE RStrip(_)
RStrip(s) ==
    IF s # <<>> /\ IsSpaceChar(s[Len(s)]) THEN RStrip(SubSeq(s, 1, Len(s) - 1)) ELSE s

\* str.strip()
Strip(s) == RStrip(LStrip(s))

RECURSIVE SplitAcc(_, _, _)
SplitAcc(s, cur, seps) ==
    IF s = <<>> THEN <<cur>>
    ELSE IF Head(s) \in seps THEN <<cur>> \o SplitAcc(Tail(s), <<>>, seps)
    ELSE SplitAcc(Tail(s), Append(cur, Head(s)), seps)

\* str.split(sep) for a one-character sep: empty pieces are kept
SplitOn(s, sep) == SplitAcc(s, <<>>, {sep})

\* str.split(): runs of whitespace separate, empty pieces are dropped
SplitWords(s) == SelectSeq(SplitAcc(s, <<>>, SpaceChars), LAMBDA w : w # <<>>)

\* str.startswith
StartsWith(s, p) == Len(s) >= Len(p) /\ SubSeq(s, 1, Len(p)) = p

\* p in s
IsSubstr(p, s) ==
    \E i \in 0..(Len(s) - Len(p)) : SubSeq(s, i + 1, i + Len(p)) = p

RECURSIVE Join(_, _)
\* sep.join(parts)
Join(parts, sep) ==
    IF parts = <<>> THEN <<>>
    ELSE IF Len(parts) = 1 THEN parts[1]
    ELSE parts[1] \o sep \o Join(Tail(parts), sep)

RECURSIVE Flatten(_)
Flatten(ss) == IF ss = <<>> THEN <<>> ELSE Head(ss) \o Flatten(Tail(ss))

Range(s) == {s[i] : i \in 1..Len(s)}

(***************************************************************************)
(* Term Extractor.                                                         *)
(***************************************************************************)
\* a faulty variant: the predicate forgets to strip the punctuation
looks_like_search_raw(q) == Len(SplitWords(Strip(Lower(q)))) = 1

extract_search_terms(q) ==
    LET clean_query == Strip(DropPunct(Lower(q)))
        words == SplitWords(clean_query)
    IN  IF Len(words) = 1 THEN SubSeq(words, 1, 1) ELSE <<>>

looks_like_search(q) ==
    LET clean_query == Strip(DropPunct(Lower(q)))
        words == SplitWords(clean_query)
    IN  Len(words) = 1

(***************************************************************************)
(* Python values.  Every value is a record of the same shape, so that any  *)
(* two values can be compared: t is the type, s the characters of a str,   *)
(* l the items of a list (each a str), d the (key, value) pairs of a dict  *)
(* in insertion order, n an int.  Absent is a key missing from a dict.     *)
(***************************************************************************)
Absent == [t |-> "absent", s |-> <<>>, l |-> <<>>, d |-> <<>>, n |-> 0]
None == [t |-> "none", s |-> <<>>, l |-> <<>>, d |-> <<>>, n |-> 0]
S(chars) == [t |-> "str", s |-> chars, l |-> <<>>, d |-> <<>>, n |-> 0]
L(items) == [t |-> "list", s |-> <<>>, l |-> items, d |-> <<>>, n |-> 0]
D(pairs) == [t |-> "dict", s |-> <<>>, l |-> <<>>, d |-> pairs, n |-> 0]
I(k) == [t |-> "int", s |-> <<>>, l |-> <<>>, d |-> <<>>, n |-> k]
Date(iso) == [t |-> "date", s |-> iso, l |-> <<>>, d |-> <<>>, n |-> 0]

\* bool(v)
Truthy(v) ==
    CASE v.t = "str" -> v.s # <<>>
      [] v.t = "list" -> v.l # <<>>
      [] v.t = "dict" -> v.d # <<>>
      [] v.t = "int" -> v.n # 0
      [] v.t = "date" -> TRUE
      [] OTHER -> FALSE

\* dict.get(field) and dict.get(field, default)
GetDefault(rule, field, default) ==
    IF rule[field].t = "absent" THEN default ELSE rule[field]

Get(rule, field) == GetDefault(rule, field, None)

RECURSIVE IntStr(_)
\* str(n) for n >= 0
IntStr(k) ==
    IF k < 10 THEN <<DigitStr[k + 1]>> ELSE IntStr(k \div 10) \o <<DigitStr[(k % 10) + 1]>>

\* str(v), also the {v} of an f-string
Fmt(v) ==
    CASE v.t = "str" -> v.s
      [] v.t = "int" -> IntStr(v.n)
      [] v.t = "none" -> <<"None">>
      [] OTHER -> <<"<repr>">>

fields ==
    <<"title", "id", "status", "description", "references", "author", "date",
      "modified", "tags", "logsource", "detection", "falsepositives", "level",
      "filename">>

FieldSet == Range(fields)

(***************************************************************************)
(* json.dumps of a mapping of str to str.                                  *)
(***************************************************************************)
Quoted(s) == <<"\"">> \o s \o <<"\"">>

PairText(kv) == Quoted(kv[1]) \o <<":", " ">> \o Quoted(kv[2])

\* json.dumps(d)
json_dumps(d) ==
    <<"{">> \o Join([i \in 1..Len(d) |-> PairText(d[i])], <<",", " ">>) \o <<"}">>

Spaces(k) == [i \in 1..k |-> " "]

\* json.dumps(d, indent=k).split('\n')
json_dumps_lines(d, k) ==
    IF d = <<>> THEN << <<"{", "}">> >>
    ELSE << <<"{">> >>
         \o [i \in 1..Len(d) |->
               Spaces(k) \o PairText(d[i]) \o (IF i < Len(d) THEN <<",">> ELSE <<>>)]
         \o << <<"}">> >>

(***************************************************************************)
(* The ingester's payload.                                                 *)
(***************************************************************************)
\* serialize: a date becomes its ISO string
serialize(v) == IF v.t = "date" THEN S(v.s) ELSE v

\* every one of the 14 keys is set, to None when the document lacks it
prepare_payload(sigma_rule) ==
    [f \in FieldSet |-> serialize(Get(sigma_rule, f))]

EmptyDoc == [f \in FieldSet |-> Absent]

DocA ==
    [EmptyDoc EXCEPT
        !["title"] = S(<<"A", "b">>),
        !["description"] = S(<<" ", "M", "\n", "k", " ">>),
        !["date"] = Date(<<"1">>),
        !["tags"] = L(<< <<"a", "t", "t", "a", "c", "k", ".", "t", "1">>, <<"x">> >>),
        !["detection"] = D(<< <<<<"k">>, <<"a", "b">>>>, <<<<"c">>, <<"m">>>> >>)]

DocB == [EmptyDoc EXCEPT !["title"] = S(<<"b">>)]

\* the payloads the collection may hold, by name: two ingested ones and one
\* written by another client, which lacks keys
PayloadNames == {"RA", "RB", "RC"}

Payload(name) ==
    CASE name = "RA" -> prepare_payload(DocA)
      [] name = "RB" -> prepare_payload(DocB)
      [] OTHER ->
            [EmptyDoc EXCEPT
                !["references"] = L(<<>>),
                !["logsource"] = D(<< <<<<"k">>, <<"z">>>> >>),
                !["detection"] = D(<<>>),
                !["falsepositives"] = L(<< <<"A", "B">> >>)]

(***************************************************************************)
(* Rule Matcher: the searchable text of one payload.                       *)
(***************************************************************************)
SimpleFields ==
    <<"title", "id", "status", "description", "author", "date", "modified",
      "level", "filename">>

AttackPrefix == <<"a", "t", "t", "a", "c", "k", ".">>

searchable_parts(payload) ==
    LET simple ==
            Flatten([i \in 1..Len(SimpleFields) |->
                IF Truthy(Get(payload, SimpleFields[i]))
                THEN <<Fmt(Get(payload, SimpleFields[i]))>> ELSE <<>>])
        refs == Get(payload, "references")
        tags == Get(payload, "tags")
        tag_parts ==
            Flatten([i \in 1..Len(tags.l) |->
                IF StartsWith(tags.l[i], AttackPrefix)
                THEN SplitOn(tags.l[i], ".") ELSE <<>>])
        logsource == Get(payload, "logsource")
        detection == Get(payload, "detection")
        fps == Get(payload, "falsepositives")
    IN  simple
        \o (IF Truthy(refs) THEN refs.l ELSE <<>>)
        \o (IF Truthy(tags) THEN tags.l \o tag_parts ELSE <<>>)
        \o (IF Truthy(logsource)
            THEN [i \in 1..Len(logsource.d) |-> logsource.d[i][2]] ELSE <<>>)
        \o (IF Truthy(detection) THEN <<json_dumps(detection.d)>> ELSE <<>>)
        \o (IF Truthy(fps) THEN fps.l ELSE <<>>)

searchable_text(payload) == Lower(Join(searchable_parts(payload), <<" ">>))

\* the page a scroll returns: at most limit points
ScrollLimit == 3000

Page(points) ==
    SubSeq(points, 1, IF Len(points) < ScrollLimit THEN Len(points) ELSE ScrollLimit)

\* the set `matches` after the loop over the page: one entry per distinct
\* (title, json.dumps(payload)), that is per distinct payload
Matched(terms, points) ==
    {Page(points)[i] : i \in
        {j \in 1..Len(Page(points)) :
            \E k \in 1..Len(terms) :
                IsSubstr(Lower(terms[k]), searchable_text(Payload(Page(points)[j])))}}

\* the orders in which iterating a set may deliver its elements
Orders(set) ==
    {s \in UNION {[1..k -> set] : k \in {Cardinality(set)}} :
        \A i, j \in 1..Len(s) : i # j => s[i] # s[j]}

(***************************************************************************)
(* Rule Formatter.                                                         *)
(***************************************************************************)
\* the lines of a mapping's block: json.dumps(value, indent=4).split('\n')[1:-1],
\* each stripped and indented by four spaces
DictBlock(d) ==
    LET dict_lines == json_dumps_lines(d, 4)
        inner == SubSeq(dict_lines, 2, Len(dict_lines) - 1)
    IN  [i \in 1..Len(inner) |-> <<"    ">> \o Strip(inner[i])]

\* the lines one pass of the loop over `fields` appends to yaml_output
format_field(field, value) ==
    (IF field = "description" THEN
        IF Truthy(value)
        THEN << <<"description: |">> >>
             \o [i \in 1..Len(SplitOn(Fmt(value), "\n")) |->
                    <<"    ">> \o Strip(SplitOn(Fmt(value), "\n")[i])]
        ELSE << <<"description: |">>, <<"    No description provided">> >>
     ELSE IF field \in {"logsource", "detection"} THEN
        << <<field, ":">> >>
        \o (IF value.t = "dict" THEN DictBlock(value.d) ELSE << <<"    {}">> >>)
     ELSE IF value.t = "list" THEN
        << <<field, ":">> >>
        \o (IF Truthy(value)
            THEN [i \in 1..Len(value.l) |-> <<"    - ">> \o value.l[i]]
            ELSE << <<"    - none">> >>)
     ELSE IF value.t = "dict" THEN
        << <<field, ":">> >>
        \o (IF Truthy(value) THEN DictBlock(value.d) ELSE << <<"    {}">> >>)
     ELSE
        << <<field, ": ">> \o (IF value.t # "none" THEN Fmt(value) ELSE <<"none">>) >>)
    \o (IF field \in {"description", "detection", "logsource"} THEN << <<>> >> ELSE <<>>)

\* yaml_output at the end of format_rule
yaml_lines(rule) ==
    Flatten([i \in 1..Len(fields) |-> format_field(fields[i], Get(rule, fields[i]))])

format_rule(rule) == Join(yaml_lines(rule), <<"\n">>)

(***************************************************************************)
(* Context Assembler.                                                      *)
(***************************************************************************)
\* the entries one rule adds to `context`
context_block(k, rule) ==
    << <<"Rule ">> \o IntStr(k) \o <<":">>,
       <<"Title: ">> \o Fmt(GetDefault(rule, "title", S(<<"Untitled">>))) >>
    \o (IF Truthy(Get(rule, "description"))
        THEN << <<"Description: ">> \o Fmt(rule["description"]) >> ELSE <<>>)
    \o (IF Truthy(Get(rule, "detection"))
        THEN << <<"Detection:">>,
                Join(json_dumps_lines(rule["detection"].d, 2), <<"\n">>) >>
        ELSE <<>>)
    \o << <<"---">> >>

get_context_from_rules(rules) ==
    IF rules = <<>> THEN <<>>
    ELSE Join(Flatten([k \in 1..Len(rules) |-> context_block(k, Payload(rules[k]))]),
              <<"\n">>)

\* a faulty variant: the template is used whatever the context
create_llm_prompt_always(q, rules) ==
    S(<<"Here are some relevant Sigma detection rules for context:\n\n">>
      \o get_context_from_rules(rules)
      \o <<"\n\nBased on these rules, please answer this question:\n">>
      \o Fmt(q)
      \o <<"\n\nPlease be specific and refer to the rules when applicable.">>)

create_llm_prompt(q, rules) ==
    LET context == get_context_from_rules(rules)
    IN  IF context # <<>>
        THEN S(<<"Here are some relevant Sigma detection rules for context:\n\n">>
               \o context
               \o <<"\n\nBased on these rules, please answer this question:\n">>
               \o Fmt(q)
               \o <<"\n\nPlease be specific and refer to the rules when applicable.">>)
        ELSE q

(***************************************************************************)
(* json.loads of one line of the generation stream, for the JSON the model *)
(* sends: integers, strings, and one-level objects of string to string     *)
(* (no escapes).  Any other text raises JSONDecodeError.                   *)
(***************************************************************************)
IsQuoted(s) ==
    /\ Len(s) >= 2
    /\ s[1] = "\"" /\ s[Len(s)] = "\""
    /\ \A i \in 2..(Len(s) - 1) : s[i] # "\""

Unquote(s) == SubSeq(s, 2, Len(s) - 1)

IsPair(piece) ==
    LET kv == SplitOn(piece, ":")
    IN  Len(kv) = 2 /\ IsQuoted(Strip(kv[1])) /\ IsQuoted(Strip(kv[2]))

PairOf(piece) ==
    LET kv == SplitOn(piece, ":")
    IN  <<Unquote(Strip(kv[1])), Unquote(Strip(kv[2]))>>

DigitVal(c) == CHOOSE k \in 0..9 : DigitStr[k + 1] = c

RECURSIVE ParseInt(_)
ParseInt(s) ==
    IF s = <<>> THEN 0 ELSE 10 * ParseInt(SubSeq(s, 1, Len(s) - 1)) + DigitVal(s[Len(s)])

\* [ok |-> FALSE] stands for JSONDecodeError
json_loads(line) ==
    LET text == Strip(line)
        body == Strip(SubSeq(text, 2, Len(text) - 1))
        pieces == SplitOn(body, ",")
    IN  IF text # <<>> /\ \A i \in 1..Len(text) : text[i] \in DigitChars
        THEN [ok |-> TRUE, value |-> I(ParseInt(text))]
        ELSE IF IsQuoted(text)
        THEN [ok |-> TRUE, value |-> S(Unquote(text))]
        ELSE IF Len(text) >= 2 /\ text[1] = "{" /\ text[Len(text)] = "}"
        THEN IF body = <<>>
             THEN [ok |-> TRUE, value |-> D(<<>>)]
             ELSE IF \A i \in 1..Len(pieces) : IsPair(pieces[i])
             THEN [ok |-> TRUE, value |-> D([i \in 1..Len(pieces) |-> PairOf(pieces[i])])]
             ELSE [ok |-> FALSE, value |-> None]
        ELSE [ok |-> FALSE, value |-> None]

ResponseKey == <<"r", "e", "s", "p", "o", "n", "s", "e">>

\* data.get("response", "") of a dict: the value of the last pair with that key
DictGet(d, key, default) ==
    LET hits == {i \in 1..Len(d) : d[i][1] = key}
    IN  IF hits = {} THEN default
        ELSE S(d[CHOOSE i \in hits : \A j \in hits : j <= i][2])

(***************************************************************************)
(* Inputs.                                                                 *)
(***************************************************************************)
\* the prompt argument of pipe
Prompts ==
    {None, S(<<>>),
     S(<<"a", "b">>), S(<<"T", "1", "!">>), S(<<"B">>), S(<<"z", "z">>),
     S(<<"a", " ", "b">>), S(<<"!">>),
     I(7)}

\* kwargs['user_message']: missing, or a single word
UserMessages == {Absent, S(<<"a", "b">>)}

\* the terms of a direct call of search_qdrant
TermLists == {<<>>, << <<"a", "b">> >>, << <<"z", "z">>, <<"T", "1">> >>}

\* the lines a generation stream may deliver
StreamLines ==
    { <<>>,
      <<"{", "x">>,
      <<"{", "\"">> \o ResponseKey \o <<"\"", ":", " ", "\"", "a", "\"", "}">>,
      <<"{", "\"", "k", "\"", ":", " ", "\"", "z", "\"", "}">>,
      <<"1">> }

(***************************************************************************)
(* State.                                                                  *)
(***************************************************************************)
\* what is observed of one invocation
NoHist ==
    [cache0 |-> <<>>,       \* last_search_results when the invocation began
     searches |-> <<>>,     \* the terms of each search_qdrant call, in order
     scrolls |-> 0,         \* calls of qdrant.scroll
     store_ok |-> TRUE,     \* whether the last store call succeeded
     matched |-> {},        \* the payloads the last search_qdrant call matched
     generates |-> 0,       \* calls of requests.post
     raised |-> FALSE]      \* whether an exception reached pipe's handler

Locals ==
    /\ query = None
    /\ search_terms = <<>>
    /\ matches = <<>>
    /\ idx = 0
    /\ llm_prompt = None
    /\ out = <<>>
    /\ received = <<>>
    /\ ret = <<>>
    /\ hist = NoHist

Init ==
    /\ store = <<>>
    /\ last_search_results = <<>>
    /\ pc = "idle"
    /\ Locals
    /\ fn_in = None
    /\ fn_out = None

(***************************************************************************)
(* Rule Matcher.                                                           *)
(***************************************************************************)
\* a faulty variant: a failed store call answers with the cached rules
search_qdrant_stale(terms, ok, order) ==
    IF ok
    THEN [cache |-> order, result |-> order]
    ELSE [cache |-> last_search_results, result |-> last_search_results]

\* a faulty variant: the new matches are merged into the cache
search_qdrant_merge(terms, ok, order) ==
    IF ok
    THEN [cache |-> last_search_results
                    \o SelectSeq(order, LAMBDA r : r \notin Range(last_search_results)),
          result |-> order]
    ELSE [cache |-> last_search_results, result |-> <<>>]

\* search_qdrant(terms): the cache and the return value it leaves.  ok is
\* whether the try block ran to its end (scroll answered and every payload
\* was well formed); order is the order in which the set `matches` is read.
search_qdrant(terms, ok, order) ==
    IF ok
    THEN [cache |-> order, result |-> order]
    ELSE [cache |-> last_search_results, result |-> <<>>]

\* the observations of one search_qdrant call
Searched(h, terms, ok) ==
    [h EXCEPT !.searches = Append(@, terms),
              !.scrolls = @ + 1,
              !.store_ok = ok,
              !.matched = IF ok THEN Matched(terms, store) ELSE {}]

\* a direct call of the public method
DirectSearch(terms) ==
    /\ pc = "idle"
    /\ \E ok \in BOOLEAN, order \in Orders(Matched(terms, store)) :
          /\ last_search_results' = search_qdrant(terms, ok, order).cache
          /\ ret' = search_qdrant(terms, ok, order).result
          /\ hist' = Searched([NoHist EXCEPT !.cache0 = last_search_results], terms, ok)
    /\ pc' = "returned"
    /\ UNCHANGED <<store, query, search_terms, matches, idx, llm_prompt, out,
                   received, fn_in, fn_out>>

(***************************************************************************)
(* Pipeline Orchestrator: pipe, one action per stretch between two         *)
(* suspension points of the generator.                                     *)
(***************************************************************************)
\* a faulty variant: the handler ends the generator without a fragment
RaiseSilent(message) ==
    /\ out' = out
    /\ pc' = "done"

\* the except clause of pipe: yield f"Error: {str(e)}", and the generator ends
Raise(message) ==
    /\ out' = Append(out, S(<<"Error: ">> \o message))
    /\ pc' = "done"

\* pipe(prompt, user_message=...): the query is chosen, an empty one returns
PipeCall(prompt, user_message) ==
    /\ pc = "idle"
    /\ query' = IF Truthy(prompt) THEN prompt
                ELSE GetDefault([um |-> user_message], "um", S(<<>>))
    /\ pc' = IF Truthy(query') THEN "extract" ELSE "done"
    /\ hist' = [NoHist EXCEPT !.cache0 = last_search_results]
    /\ UNCHANGED <<store, last_search_results, search_terms, matches, idx,
                   llm_prompt, out, received, ret, fn_in, fn_out>>

\* search_terms = self.extract_search_terms(query); a query that is no str
\* has no lower()
Extract ==
    /\ pc = "extract"
    /\ IF query.t = "str"
       THEN /\ search_terms' = extract_search_terms(query.s)
            /\ pc' = "match"
            /\ UNCHANGED <<out, hist>>
       ELSE /\ Raise(<<"'int' object has no attribute 'lower'">>)
            /\ hist' = [hist EXCEPT !.raised = TRUE]
            /\ UNCHANGED search_terms
    /\ UNCHANGED <<store, last_search_results, query, matches, idx, llm_prompt,
                   received, ret, fn_in, fn_out>>

\* a faulty variant: the matcher runs whatever the terms
HasTermsAlways(terms) == TRUE

\* the condition `if search_terms` of the conditional expression
HasTerms(terms) == terms # <<>>

\* matches = self.search_qdrant(search_terms) if search_terms
\*           else self.last_search_results
Match ==
    /\ pc = "match"
    /\ IF HasTerms(search_terms)
       THEN \E ok \in BOOLEAN, order \in Orders(Matched(search_terms, store)) :
               /\ last_search_results' = search_qdrant(search_terms, ok, order).cache
               /\ matches' = search_qdrant(search_terms, ok, order).result
               /\ hist' = Searched(hist, search_terms, ok)
       ELSE /\ matches' = last_search_results
            /\ UNCHANGED <<last_search_results, hist>>
    /\ pc' = "classify"
    /\ UNCHANGED <<store, query, search_terms, idx, llm_prompt, out, received,
                   ret, fn_in, fn_out>>

\* if self.looks_like_search(query): the header or the "no rules" line
Classify ==
    /\ pc = "classify"
    /\ IF looks_like_search(query.s)
       THEN IF matches # <<>>
            THEN /\ out' = Append(out, S(<<"Found ">> \o IntStr(Len(matches))
                                         \o <<" matching Sigma rules:\n\n">>))
                 /\ idx' = 1
                 /\ pc' = "list"
            ELSE /\ out' = Append(out, S(<<"No Sigma rules found matching: ">>
                                         \o Join(search_terms, <<", ">>) \o <<"\n">>))
                 /\ pc' = "done"
                 /\ UNCHANGED idx
       ELSE /\ pc' = "prompt"
            /\ UNCHANGED <<out, idx>>
    /\ UNCHANGED <<store, last_search_results, query, search_terms, matches,
                   llm_prompt, received, ret, hist, fn_in, fn_out>>

\* the two fence literals; [fence] stands for the three backquotes, which a
\* TLA+ string cannot hold
FenceOpen == "[fence]yaml\n"
FenceClose == "\n[fence]\n\n"

\* one pass of the loop over enumerate(matches, 1): four fragments
ListRule ==
    /\ pc = "list"
    /\ out' = out \o
         << S(<<"Rule ">> \o IntStr(idx) \o <<": ">>
              \o Fmt(GetDefault(Payload(matches[idx]), "title", S(<<"Untitled">>)))
              \o <<"\n">>),
            S(<<FenceOpen>>),
            S(format_rule(Payload(matches[idx]))),
            S(<<FenceClose>>) >>
    /\ idx' = idx + 1
    /\ pc' = IF idx < Len(matches) THEN "list" ELSE "done"
    /\ UNCHANGED <<store, last_search_results, query, search_terms, matches,
                   llm_prompt, received, ret, hist, fn_in, fn_out>>

\* llm_prompt = self.create_llm_prompt(query, matches)
BuildPrompt ==
    /\ pc = "prompt"
    /\ llm_prompt' = create_llm_prompt(query, matches)
    /\ pc' = "post"
    /\ UNCHANGED <<store, last_search_results, query, search_terms, matches, idx,
                   out, received, ret, hist, fn_in, fn_out>>

\* response = requests.post(..., stream=True): it answers, or it raises
Post ==
    /\ pc = "post"
    /\ \/ /\ pc' = "stream"
          /\ hist' = [hist EXCEPT !.generates = @ + 1]
          /\ UNCHANGED out
       \/ /\ Raise(<<"connection refused">>)
          /\ hist' = [hist EXCEPT !.generates = @ + 1, !.raised = TRUE]
    /\ UNCHANGED <<store, last_search_results, query, search_terms, matches, idx,
                   llm_prompt, received, ret, fn_in, fn_out>>

\* the body of the loop over response.iter_lines for one line
StreamLine(line) ==
    /\ pc = "stream"
    /\ Len(received) < MaxStream
    /\ received' = Append(received, line)
    /\ IF line = <<>>
       THEN UNCHANGED <<out, pc, hist>>
       ELSE IF ~json_loads(line).ok
       THEN UNCHANGED <<out, pc, hist>>
       ELSE IF json_loads(line).value.t = "dict"
       THEN /\ out' = Append(out, DictGet(json_loads(line).value.d, ResponseKey, S(<<>>)))
            /\ UNCHANGED <<pc, hist>>
       ELSE /\ Raise(<<"'">>
                     \o (IF json_loads(line).value.t = "int" THEN <<"int">> ELSE <<"str">>)
                     \o <<"' object has no attribute 'get'">>)
            /\ hist' = [hist EXCEPT !.raised = TRUE]
    /\ UNCHANGED <<store, last_search_results, query, search_terms, matches, idx,
                   llm_prompt, ret, fn_in, fn_out>>

\* iter_lines raises: the connection broke
StreamBreak ==
    /\ pc = "stream"
    /\ Raise(<<"connection broken">>)
    /\ hist' = [hist EXCEPT !.raised = TRUE]
    /\ UNCHANGED <<store, last_search_results, query, search_terms, matches, idx,
                   llm_prompt, received, ret, fn_in, fn_out>>

\* iter_lines is exhausted: the generator ends
StreamEnd ==
    /\ pc = "stream"
    /\ pc' = "done"
    /\ UNCHANGED <<store, last_search_results, query, search_terms, matches, idx,
                   llm_prompt, out, received, ret, hist, fn_in, fn_out>>

\* the caller drops the finished generator (or the returned list)
Finish ==
    /\ pc \in {"done", "returned"}
    /\ pc' = "idle"
    /\ query' = None
    /\ search_terms' = <<>>
    /\ matches' = <<>>
    /\ idx' = 0
    /\ llm_prompt' = None
    /\ out' = <<>>
    /\ received' = <<>>
    /\ ret' = <<>>
    /\ hist' = NoHist
    /\ UNCHANGED <<store, last_search_results, fn_in, fn_out>>

(***************************************************************************)
(* The collection changes under the pipeline: the ingester recreates it    *)
(* and upserts payloads at any time.  The pipeline reads the collection    *)
(* only in search_qdrant, so a change commutes with every other step; the  *)
(* model takes it between invocations, right before the store is read and  *)
(* right before the prompt is assembled.                                   *)
(***************************************************************************)
StoreMayChange == pc \in {"idle", "match", "prompt"}

\* client.upsert of one more point
Upsert(name) ==
    /\ StoreMayChange
    /\ Len(store) < MaxStore
    /\ store' = Append(store, name)
    /\ UNCHANGED <<last_search_results, pc, query, search_terms, matches, idx,
                   llm_prompt, out, received, ret, hist, fn_in, fn_out>>

\* client.recreate_collection: every point is gone
Recreate ==
    /\ StoreMayChange
    /\ store # <<>>
    /\ store' = <<>>
    /\ UNCHANGED <<last_search_results, pc, query, search_terms, matches, idx,
                   llm_prompt, out, received, ret, hist, fn_in, fn_out>>

Next ==
    \/ \E p \in Prompts, um \in UserMessages : PipeCall(p, um)
    \/ Extract
    \/ Match
    \/ Classify
    \/ ListRule
    \/ BuildPrompt
    \/ Post
    \/ \E line \in StreamLines : StreamLine(line)
    \/ StreamBreak
    \/ StreamEnd
    \/ Finish
    \/ \E terms \in TermLists : DirectSearch(terms)
    \/ \E name \in PayloadNames : Upsert(name)
    \/ Recreate

Spec == Init /\ [][Next]_vars

(***************************************************************************)
(* Claims about the Rule Matcher and the Pipeline Orchestrator.            *)
(***************************************************************************)
\* the word characters of q, case-folded, in order: the case-folded,
\* punctuation-stripped word of a query that holds one word
WordOf(q) ==
    SelectChars(Lower(q), LowerChars \cup UpperChars \cup DigitChars \cup {"_"})

\* the words of a query after case-folding and punctuation stripping
WordsOf(q) == SplitWords(DropPunct(Lower(q)))

\* the query of the invocation is a str of one word
SingleWord == query.t = "str" /\ Len(WordsOf(query.s)) = 1

Last(s) == s[Len(s)]

NoDuplicates(s) == \A i, j \in 1..Len(s) : i # j => s[i] # s[j]

\* a search_qdrant call has just returned: a direct one, or the one of pipe
SearchReturned ==
    \/ pc = "returned"
    \/ pc = "classify" /\ hist.searches # <<>>

IsError(v) == v.t = "str" /\ v.s # <<>> /\ v.s[1] = "Error: "

ErrorCount == Cardinality({i \in 1..Len(out) : IsError(out[i])})

\* C1: every invocation of search_qdrant replaces the cache: after it returns,
\* last_search_results is exactly the set of rules this call matched (empty
\* when it matched none), whatever the cache held and whatever the outcome of
\* the store call.
C1_EverySearchReplacesTheCache ==
    SearchReturned =>
        /\ Range(last_search_results) = hist.matched
        /\ NoDuplicates(last_search_results)

\* C2: search_qdrant with an empty sequence of terms returns an empty list and
\* makes no call of the store's scroll.
C2_EmptyTermsMakeNoStoreCall ==
    (pc = "returned" /\ hist.searches = << <<>> >>) =>
        /\ ret = <<>>
        /\ hist.scrolls = 0

C4_AnyFailureEndsWithAnErrorFragment ==
    (pc = "done" /\ (hist.raised \/ ~hist.store_ok)) =>
        /\ out # <<>>
        /\ IsError(Last(out))
        /\ ErrorCount = 1

\* C4, amended: an exception raised in pipe's try block (term extraction, the
\* generation request, the iteration of the stream, the handling of a decoded
\* line) ends the output with exactly one "Error: <message>" fragment, the
\* last one, and the generator ends; no other run emits such a fragment.  A
\* store failure is not among them: search_qdrant absorbs it.
C4_RaisedEndsWithOneErrorFragment ==
    /\ hist.raised =>
          /\ pc = "done"
          /\ out # <<>>
          /\ IsError(Last(out))
          /\ ErrorCount = 1
    /\ ~hist.raised => ErrorCount = 0

\* the stream broke, or a line could not be handled, after a fragment was out
C4_Witness ==
    /\ pc = "done"
    /\ hist.raised
    /\ Len(out) >= 2
    /\ IsError(Last(out))

\* the four fragments of one listed rule
ListedRule(k, rule) ==
    << S(<<"Rule ">> \o IntStr(k) \o <<": ">>
         \o (IF rule["title"].t = "absent" THEN <<"Untitled">> ELSE Fmt(rule["title"]))
         \o <<"\n">>),
       S(<<FenceOpen>>),
       S(format_rule(rule)),
       S(<<FenceClose>>) >>

\* the listing of n >= 1 rules
Listing(rules) ==
    << S(<<"Found ">> \o IntStr(Len(rules)) \o <<" matching Sigma rules:\n\n">>) >>
    \o Flatten([k \in 1..Len(rules) |-> ListedRule(k, Payload(rules[k]))])

\* C5: for a single-word query pipe never calls the generation capability and
\* emits one of two outputs: with n >= 1 rules returned by the matcher, the
\* header with the count n and, per rule in order, "Rule N: <title>", the
\* opening fence, the formatter's block and the closing fence; with no rule
\* returned (also when the store call failed), the one "no rules found"
\* fragment naming the term.
C5_SingleWordListsOrReportsNone ==
    (SingleWord /\ pc # "extract") =>
        /\ hist.generates = 0
        /\ pc \in {"classify", "list", "done"} =>
              /\ Range(matches) = hist.matched
              /\ NoDuplicates(matches)
        /\ pc = "done" =>
              out = IF matches # <<>>
                    THEN Listing(matches)
                    ELSE << S(<<"No Sigma rules found matching: ">>
                              \o WordOf(query.s) \o <<"\n">>) >>

\* two rules were listed
C5_Witness ==
    /\ SingleWord
    /\ pc = "done"
    /\ Len(matches) = 2
    /\ Len(out) = 9

\* the block of one rule in the context
ContextBlock(k, rule) ==
    << <<"Rule ">> \o IntStr(k) \o <<":">> >>
    \o << <<"Title: ">>
          \o (IF rule["title"].t = "absent" THEN <<"Untitled">> ELSE Fmt(rule["title"])) >>
    \o (IF rule["description"].t = "str" /\ rule["description"].s # <<>>
        THEN << <<"Description: ">> \o rule["description"].s >> ELSE <<>>)
    \o (IF rule["detection"].t = "dict" /\ rule["detection"].d # <<>>
        THEN << <<"Detection:">> >> \o json_dumps_lines(rule["detection"].d, 2)
        ELSE <<>>)
    \o << <<"---">> >>

\* the prompt the template makes of a query and the rules
TemplatePrompt(q, rules) ==
    S(<<"Here are some relevant Sigma detection rules for context:\n\n">>
      \o Join(Flatten([k \in 1..Len(rules) |-> ContextBlock(k, Payload(rules[k]))]),
              <<"\n">>)
      \o <<"\n\nBased on these rules, please answer this question:\n">>
      \o q
      \o <<"\n\nPlease be specific and refer to the rules when applicable.">>)

\* C6: for a free-text query the prompt sent to the generation capability is
\* the query unchanged if and only if the Result Set in use is empty; otherwise
\* it is the template holding one block per rule (1-based index, title,
\* description if present, detection if present, a "---" line) and then the
\* query.
C6_PromptIsTheQueryIffNoRules ==
    pc \in {"post", "stream"} =>
        /\ llm_prompt = query <=> matches = <<>>
        /\ matches # <<>> => llm_prompt = TemplatePrompt(query.s, matches)

\* the ingested rule with a description and a detection is in the context
C6_Witness ==
    /\ pc = "post"
    /\ \E k \in 1..Len(matches) : matches[k] = "RA"
    /\ llm_prompt # query

\* C9: in the free-text path every line of the stream keeps the stream going:
\* a non-empty line that fails to decode is dropped without output, a line
\* that decodes has its `response` value emitted, and the lines after it are
\* still read.
C9_EveryLineKeepsTheStream ==
    [][(pc = "stream" /\ Len(received') = Len(received) + 1) =>
         /\ pc' = "stream"
         /\ IF Last(received') # <<>> /\ json_loads(Last(received')).ok
            THEN /\ Len(out') = Len(out) + 1
                 /\ SubSeq(out', 1, Len(out)) = out
                 /\ ~IsError(Last(out'))
            ELSE out' = out]_vars

SearchStep == Len(hist'.searches) > Len(hist.searches)

TermAlphabet == {"a", "B", " ", "!", "_"}

Strings(k) == UNION {[1..m -> TermAlphabet] : m \in 0..k}

InitTerms ==
    /\ store = <<>>
    /\ last_search_results = <<>>
    /\ pc = "fn_ready"
    /\ Locals
    /\ fn_in \in {S(q) : q \in Strings(MaxLen)}
    /\ fn_out = [called |-> {}, terms |-> <<>>, looks |-> FALSE]

CallExtract ==
    /\ pc = "fn_ready"
    /\ "extract" \notin fn_out.called
    /\ fn_out' = [fn_out EXCEPT !.called = @ \cup {"extract"},
                                !.terms = extract_search_terms(fn_in.s)]
    /\ UNCHANGED <<store, last_search_results, pc, query, search_terms, matches,
                   idx, llm_prompt, out, received, ret, hist, fn_in>>

CallLooks ==
    /\ pc = "fn_ready"
    /\ "looks" \notin fn_out.called
    /\ fn_out' = [fn_out EXCEPT !.called = @ \cup {"looks"},
                                !.looks = looks_like_search(fn_in.s)]
    /\ UNCHANGED <<store, last_search_results, pc, query, search_terms, matches,
                   idx, llm_prompt, out, received, ret, hist, fn_in>>

NextTerms == CallExtract \/ CallLooks

SpecTerms == InitTerms /\ [][NextTerms]_vars

(***************************************************************************)
(* Claims about the Term Extractor.                                        *)
(***************************************************************************)
\* C7: extract_search_terms and looks_like_search agree on every string:
\* looks_like_search is true exactly when extract_search_terms is the
\* one-element sequence holding the case-folded, punctuation-stripped word,
\* and false exactly when extract_search_terms is empty.
C7_ExtractorAndPredicateAgree ==
    fn_out.called = {"extract", "looks"} =>
        /\ fn_out.looks <=> fn_out.terms = <<WordOf(fn_in.s)>>
        /\ ~fn_out.looks <=> fn_out.terms = <<>>

\* a query of one word wrapped in punctuation and blanks, given to both
C7_Witness ==
    /\ pc = "fn_ready"
    /\ fn_out.called = {"extract", "looks"}
    /\ fn_in.s = <<"!", "B", " ">>
    /\ fn_out.looks
    /\ fn_out.terms = << <<"b">> >>

(***************************************************************************)
(* The Rule Formatter on its own: a Sigma document is ingested             *)
(* (prepare_payload) and the payload is given to format_rule.              *)
(***************************************************************************)
\* documents: each of these keys is missing or set
Docs ==
    {[EmptyDoc EXCEPT
        !["title"] = ti, !["description"] = de, !["references"] = re,
        !["date"] = da, !["tags"] = ta, !["logsource"] = lo, !["level"] = le] :
      ti \in {Absent, S(<<"A", "b">>)},
      de \in {Absent, S(<<" ", "M", "\n", "k", " ">>)},
      re \in {Absent, L(<<>>), L(<< <<"x">>, <<"z">> >>)},
      da \in {Absent, Date(<<"1">>)},
      ta \in {Absent, L(<< <<"a", "t", "t", "a", "c", "k", ".", "t", "1">> >>)},
      lo \in {Absent, D(<<>>), D(<< <<<<"k">>, <<"z">>>>, <<<<"c">>, <<"m">>>> >>)},
      le \in {Absent, S(<<"x">>)}}

InitFormat ==
    /\ store = <<>>
    /\ last_search_results = <<>>
    /\ pc = "fn_ready"
    /\ Locals
    /\ fn_in \in Docs
    /\ fn_out = S(<<>>)

\* the ingester turns the document into the payload it upserts
CallPreparePayload ==
    /\ pc = "fn_ready"
    /\ fn_in' = prepare_payload(fn_in)
    /\ pc' = "fn_payload"
    /\ UNCHANGED <<store, last_search_results, query, search_terms, matches, idx,
                   llm_prompt, out, received, ret, hist, fn_out>>

\* format_rule on the payload, or on the document as it is
CallFormatRule ==
    /\ pc \in {"fn_ready", "fn_payload"}
    /\ fn_out' = S(format_rule(fn_in))
    /\ pc' = "fn_done"
    /\ UNCHANGED <<store, last_search_results, query, search_terms, matches, idx,
                   llm_prompt, out, received, ret, hist, fn_in>>

NextFormat == CallPreparePayload \/ CallFormatRule

SpecFormat == InitFormat /\ [][NextFormat]_vars

(***************************************************************************)
(* Claims about the Rule Formatter.                                        *)
(***************************************************************************)
\* the lines of the formatted text
OutLines == SplitOn(fn_out.s, "\n")

\* the field a line opens, "" for a line that opens none
FieldOfLine(line) ==
    IF line = <<>> THEN ""
    ELSE IF line[1] = "description: |" THEN "description"
    ELSE IF line[1] \in FieldSet /\ Len(line) >= 2 /\ line[2] \in {":", ": "} THEN line[1]
    ELSE ""

\* the fields opened by the lines of the text, in order
FieldsOpened ==
    SelectSeq([i \in 1..Len(OutLines) |-> FieldOfLine(OutLines[i])], LAMBDA f : f # "")

\* a rule with only `title` set
TitleOnly(rule) ==
    /\ Truthy(Get(rule, "title"))
    /\ \A f \in FieldSet \ {"title"} : Get(rule, f) = None

\* the text C8 expects of a title-only rule
TitleOnlyText(title) ==
    << <<"title", ": ">> \o title,
       <<"id", ": ", "none">>,
       <<"status", ": ", "none">>,
       <<"description: |">>,
       <<"    No description provided">>,
       <<>>,
       <<"references", ":">>,
       <<"    - none">>,
       <<"author", ": ", "none">>,
       <<"date", ": ", "none">>,
       <<"modified", ": ", "none">>,
       <<"tags", ":">>,
       <<"    - none">>,
       <<"logsource", ":">>,
       <<"    {}">>,
       <<>>,
       <<"detection", ":">>,
       <<"    {}">>,
       <<>>,
       <<"falsepositives", ":">>,
       <<"    - none">>,
       <<"level", ": ", "none">>,
       <<"filename", ": ", "none">> >>

\* C8: format_rule emits all 14 fields in the fixed order for every rule, and
\* a rule with only `title` set has every omitted field rendered with its
\* placeholder: the description block with "No description provided", each
\* omitted list-valued field (references, tags, falsepositives) as `field:`
\* and one "none" bullet, logsource and detection as an empty-object block,
\* each omitted scalar as `field: none`, a blank line after the description,
\* logsource and detection blocks only.
C8_TitleOnlyPlaceholders ==
    pc = "fn_done" =>
        /\ FieldsOpened = fields
        /\ TitleOnly(fn_in) => OutLines = TitleOnlyText(Get(fn_in, "title").s)

====
